---- MODULE Spec2Model ----
(***************************************************************************)
(* Model of the caching, key derivation and retry logic of                 *)
(*   src/03-advanced/enterprise_automation.py  (InMemoryCache,             *)
(*        AdobeEnterpriseOrchestrator.api_call_with_retry)                 *)
(*   src/python-automation/adobe_api_client.py (retry_on_error)            *)
(***************************************************************************)
EXTENDS Integers, Sequences, FiniteSets, TLC

(***************************************************************************)
(* Bounds of the model.                                                    *)
(***************************************************************************)
MaxSize == 2        \* max_size is drawn from 0..MaxSize
MaxDefaultTtl == 2  \* default_ttl is 0 or MaxDefaultTtl
MaxSteps == 4       \* calls and clock ticks in one behaviour
MaxFields == 2      \* fields of a request body
MaxRetries == 3     \* max_retries is drawn from 0..MaxRetries
MaxBackoff == 3     \* backoff_factor is drawn from 1..MaxBackoff
MaxRetryAfter == 2  \* a Retry-After header is drawn from 1..MaxRetryAfter
MaxCalls == 3       \* calls of api_call_with_retry in one behaviour
MaxConcurrent == 2  \* max_concurrent is drawn from 1..MaxConcurrent
MaxCallRetries == 2 \* max_retries of api_call_with_retry is drawn from 0..MaxCallRetries
MaxFailures == 3    \* failed attempts of the calls that were not cancelled
MaxTicks == 1       \* clock advances while the orchestrator runs
MaxUsers == 3       \* users of one batch
MaxPages == 3       \* pages of the user list after the first
MaxBulkUsers == 5   \* rows of the CSV file
MaxBatchSize == 3   \* batch_size is drawn from 0..MaxBatchSize

DefaultMaxSize == 1000  \* InMemoryCache(): max_size
DefaultTtl == 3600      \* InMemoryCache(): default_ttl
ResponseTtl == 300      \* api_call_with_retry: cache.set(..., ttl=300)
DefaultRetryAfter == 60 \* _handle_response: headers.get('Retry-After', 60)
BreakerThreshold == 3   \* test_circuit_breaker: circuit_breaker_threshold = 3

Keys == {"A", "B", "C"}
Values == {"v1", "v2"}
None == "None"                       \* Python's None
NoRaise == "-"                       \* the call returned normally
\* the ttl argument of set, an Optional[int]: <<>> is None, <<n>> is n
NoTtl == <<>>
Ttls == {NoTtl, <<0>>, <<1>>}

VARIABLES
    cache,          \* InMemoryCache._cache: key -> [value, expiry]
    access_order,   \* InMemoryCache._access_order: list of keys, LRU first
    max_size,       \* InMemoryCache.max_size
    default_ttl,    \* InMemoryCache.default_ttl
    hits,           \* InMemoryCache._hits
    misses,         \* InMemoryCache._misses
    now,            \* the value datetime.now() returns
    last,           \* the most recent call: operation, arguments, outcome
    nOps,           \* history: number of calls and clock ticks so far
    nGets,          \* history: number of get calls made so far
    touched,        \* history: the keys of the table, by latest hit or set
    lastSet,        \* history: key of the table -> value of its latest set
    requests,       \* the two requests whose cache keys are derived
    cache_keys,     \* the cache keys derived for them (<<>> before)
    retry,          \* one call of the wrapper of retry_on_error
    calls,          \* the calls of api_call_with_retry, in the order issued
    sem_value,      \* orchestrator.semaphore: the free slots
    waiters,        \* orchestrator.semaphore: the calls waiting, oldest first
    max_concurrent, \* config['max_concurrent']
    metrics,        \* orchestrator.metrics
    nTicks,         \* history: clock advances while the orchestrator runs
    batch,          \* one call of process_user_batch
    listing,        \* one call of AdobeAPIClient.get_all_users
    bulk,           \* one call of AdobeBulkProcessor.process_csv
    job             \* one call of PDFProcessor.process_job

cacheVars == <<cache, access_order, max_size, default_ttl, hits, misses>>
allCacheVars == <<cache, access_order, max_size, default_ttl, hits, misses, now,
                  last, nOps, nGets, touched, lastSet>>
keyVars == <<requests, cache_keys>>
orchVars == <<calls, sem_value, waiters, max_concurrent, metrics, nTicks>>
restVars == <<batch, listing, bulk, job>>
vars == <<cache, access_order, max_size, default_ttl, hits, misses, now, last,
          nOps, nGets, touched, lastSet, requests, cache_keys, retry,
          calls, sem_value, waiters, max_concurrent, metrics, nTicks,
          batch, listing, bulk, job>>

(***************************************************************************)
(* Python list and dict primitives used by InMemoryCache.                  *)
(***************************************************************************)
InList(s, x) == \E i \in 1..Len(s) : s[i] = x

FirstIndex(s, x) == CHOOSE i \in 1..Len(s) : s[i] = x /\ \A j \in 1..(i-1) : s[j] # x

\* list.remove(x): drops the first occurrence of x (x is in the list)
ListRemove(s, x) ==
    LET i == FirstIndex(s, x)
    IN  [j \in 1..(Len(s)-1) |-> IF j < i THEN s[j] ELSE s[j+1]]

\* del d[k]
DictDel(d, k) == [x \in (DOMAIN d) \ {k} |-> d[x]]

\* d[k] = v
DictPut(d, k, v) == [x \in (DOMAIN d) \cup {k} |-> IF x = k THEN v ELSE d[x]]

EmptyDict == [x \in {} |-> None]

(***************************************************************************)
(* InMemoryCache.get                                                       *)
(***************************************************************************)
\* (fault: the comparison written as <=)
IsFresh_inclusive(t, expiry) == t <= expiry

\* datetime.now() < expiry
IsFresh(t, expiry) == t < expiry

\* (fault: the append without the remove)
MoveToEnd_append(order, key) == Append(order, key)

\* (fault: the recency list left as it is)
MoveToEnd_keep(order, key) == order

\* self._access_order.remove(key); self._access_order.append(key)
MoveToEnd(order, key) == Append(ListRemove(order, key), key)

\* The hit branch: count the hit, refresh the recency, return the value.
GetHit(c, key) ==
    IF InList(c.order, key)
    THEN [cache |-> c.cache, order |-> MoveToEnd(c.order, key),
          hits |-> c.hits + 1, misses |-> c.misses,
          ret |-> c.cache[key].value, raised |-> NoRaise, path |-> "hit"]
    ELSE [cache |-> c.cache, order |-> c.order,
          hits |-> c.hits + 1, misses |-> c.misses,
          ret |-> None, raised |-> "ValueError", path |-> "hit"]

\* (fault: the expired branch returning before the miss is counted)
GetExpired_uncounted(c, key) ==
    [cache |-> DictDel(c.cache, key), order |-> ListRemove(c.order, key),
     hits |-> c.hits, misses |-> c.misses,
     ret |-> None, raised |-> NoRaise, path |-> "expired"]

\* The expired branch: drop the entry from both structures, then fall
\* through to the miss.
GetExpired(c, key) ==
    IF InList(c.order, key)
    THEN [cache |-> DictDel(c.cache, key), order |-> ListRemove(c.order, key),
          hits |-> c.hits, misses |-> c.misses + 1,
          ret |-> None, raised |-> NoRaise, path |-> "expired"]
    ELSE [cache |-> DictDel(c.cache, key), order |-> c.order,
          hits |-> c.hits, misses |-> c.misses,
          ret |-> None, raised |-> "ValueError", path |-> "expired"]

\* The branch for a key that is not in the table.
GetAbsent(c, key) ==
    [cache |-> c.cache, order |-> c.order,
     hits |-> c.hits, misses |-> c.misses + 1,
     ret |-> None, raised |-> NoRaise, path |-> "absent"]

\* get(key) at time t on the cache c = [cache, order, hits, misses]
CacheGet(c, key, t) ==
    IF key \in DOMAIN c.cache
    THEN IF IsFresh(t, c.cache[key].expiry)
         THEN GetHit(c, key)
         ELSE GetExpired(c, key)
    ELSE GetAbsent(c, key)

(***************************************************************************)
(* InMemoryCache.set                                                       *)
(***************************************************************************)
\* ttl = ttl or self.default_ttl
EffectiveTtl(ttl, dflt) == IF ttl = NoTtl \/ ttl[1] = 0 THEN dflt ELSE ttl[1]

\* expiry = datetime.now() + timedelta(seconds=ttl)
Expiry(t, ttl, dflt) == t + EffectiveTtl(ttl, dflt)

\* (fault: the capacity test without `key not in self._cache`)
AtCapacity_full(tbl, key, cap) == Cardinality(DOMAIN tbl) >= cap

\* (fault: the capacity test written as >)
AtCapacity_strict(tbl, key, cap) == Cardinality(DOMAIN tbl) > cap /\ key \notin DOMAIN tbl

\* len(self._cache) >= self.max_size and key not in self._cache
AtCapacity(tbl, key, cap) == Cardinality(DOMAIN tbl) >= cap /\ key \notin DOMAIN tbl

\* (fault: pop() in place of pop(0))
PopOldest_newest(order) ==
    [key |-> order[Len(order)], rest |-> SubSeq(order, 1, Len(order) - 1)]

\* self._access_order.pop(0): the key it returns and the list it leaves
PopOldest(order) == [key |-> Head(order), rest |-> Tail(order)]

\* self._cache[key] = (value, expiry), then the recency update of the key
Insert(c, key, value, expiry) ==
    [cache |-> DictPut(c.cache, key, [value |-> value, expiry |-> expiry]),
     order |-> IF InList(c.order, key)
               THEN Append(ListRemove(c.order, key), key)
               ELSE Append(c.order, key),
     hits |-> c.hits, misses |-> c.misses,
     evicted |-> c.evicted, raised |-> NoRaise]

\* (fault: the eviction interrupted after the pop, the entry not deleted)
Evict_half(c) ==
    IF c.order = <<>>
    THEN [c EXCEPT !.raised = "IndexError"]
    ELSE [c EXCEPT !.order = PopOldest(c.order).rest,
                   !.evicted = PopOldest(c.order).key]

\* oldest_key = self._access_order.pop(0); del self._cache[oldest_key]
Evict(c) ==
    IF c.order = <<>>
    THEN [c EXCEPT !.raised = "IndexError"]
    ELSE LET oldest_key == PopOldest(c.order).key
             rest == PopOldest(c.order).rest
         IN  IF oldest_key \in DOMAIN c.cache
             THEN [c EXCEPT !.order = rest, !.cache = DictDel(c.cache, oldest_key),
                            !.evicted = oldest_key]
             ELSE [c EXCEPT !.order = rest, !.raised = "KeyError"]

\* set(key, value, ttl) at time t on the cache c, of capacity cap
CacheSet(c, key, value, ttl, t, cap, dflt) ==
    LET c0 == [cache |-> c.cache, order |-> c.order, hits |-> c.hits,
               misses |-> c.misses, evicted |-> None, raised |-> NoRaise]
        c1 == IF AtCapacity(c.cache, key, cap) THEN Evict(c0) ELSE c0
    IN  IF c1.raised # NoRaise
        THEN c1
        ELSE Insert(c1, key, value, Expiry(t, ttl, dflt))

(***************************************************************************)
(* InMemoryCache.get_stats                                                 *)
(***************************************************************************)
\* hit_rate is the fraction hits / total, kept as the pair <<hits, total>>
CacheStats(c, cap) ==
    [hits |-> c.hits, misses |-> c.misses,
     hit_rate |-> IF c.hits + c.misses > 0 THEN <<c.hits, c.hits + c.misses>> ELSE <<0, 1>>,
     size |-> Cardinality(DOMAIN c.cache), max_size |-> cap]

(***************************************************************************)
(* InMemoryCache._make_key, as api_call_with_retry calls it:               *)
(*     cache_key = self.cache._make_key(endpoint, method, data)            *)
(* A request body (data) is None or a dict; a dict is the sequence of its  *)
(* <<field, value>> items in insertion order, the order Python keeps and   *)
(* prints them in.                                                         *)
(***************************************************************************)
Endpoints == {"/users", "/groups"}
Methods == {"GET", "POST"}
Fields == {"a", "b"}
FieldValues == {"1", "2"}

IsDict(items) ==
    \A i, j \in 1..Len(items) : i # j => items[i][1] # items[j][1]

Dicts ==
    UNION {{d \in [1..n -> Fields \X FieldValues] : IsDict(d)} : n \in 0..MaxFields}

Bodies == {[isNone |-> TRUE, items |-> <<>>]} \cup
          {[isNone |-> FALSE, items |-> d] : d \in Dicts}

Requests == [endpoint : Endpoints, method : Methods, data : Bodies]

\* repr(data): "None", or the items of the dict in insertion order
Repr(data) == IF data.isNone THEN <<"None">> ELSE <<"{", data.items, "}">>

\* sorted(kwargs.items()) of a call that passes no keyword argument
NoKwargs == <<>>

\* f"{args}{sorted(kwargs.items())}" for args = (endpoint, method, data)
KeyData(endpoint, method, data) == <<<<endpoint, method, Repr(data)>>, NoKwargs>>

\* hashlib.md5(..).hexdigest(): taken as collision-free, a digest stands for
\* exactly one text
Md5(text) == <<"md5", text>>

\* self.cache._make_key(endpoint, method, data)
MakeKey(endpoint, method, data) == Md5(KeyData(endpoint, method, data))

KeyIdle ==
    /\ requests = <<>>
    /\ cache_keys = <<>>

KeyInit ==
    /\ requests \in Requests \X Requests
    /\ cache_keys = <<>>

\* the first lines of api_call_with_retry, for each of the two requests
Derive ==
    /\ cache_keys = <<>>
    /\ requests # <<>>
    /\ cache_keys' = [i \in 1..2 |-> MakeKey(requests[i].endpoint, requests[i].method,
                                           requests[i].data)]
    /\ UNCHANGED <<allCacheVars, requests, retry, orchVars, restVars>>

(***************************************************************************)
(* retry_on_error(max_retries, backoff_factor): the wrapper around one     *)
(* call of the decorated coroutine func.                                   *)
(***************************************************************************)
Retryable == {"ClientError", "TimeoutError"}     \* aiohttp.ClientError, asyncio.TimeoutError
Outcomes == {"ok"} \cup Retryable \cup {"ValueError"}  \* what one await of func does
OkResult == "result"

\* (fault: the exponent counted from 1)
WaitTime_fromOne(backoff_factor, attempt) == backoff_factor ^ (attempt + 1)

\* wait_time = backoff_factor ** attempt
WaitTime(backoff_factor, attempt) == backoff_factor ^ attempt

\* (fault: a wait made after the final attempt as well)
HasNextAttempt_always(attempt, maxr) == attempt < maxr

\* if attempt < max_retries - 1
HasNextAttempt(attempt, maxr) == attempt < maxr - 1

RetryIdle == retry = [pc |-> "idle"]

\* wrapper(*args, **kwargs) is called: last_exception = None, the loop starts
RetryInit ==
    \E m \in 0..MaxRetries, b \in 1..MaxBackoff :
        retry = [pc |-> "loop", max_retries |-> m, backoff_factor |-> b,
                 attempt |-> 0, last_exception |-> None, result |-> None,
                 outcomes |-> <<>>, waits |-> <<>>, retry_after |-> 0,
                 slept |-> <<>>]

\* the except clause, for the exception exc caught in the state r
Caught(r, exc) ==
    IF HasNextAttempt(r.attempt, r.max_retries)
    THEN [r EXCEPT !.pc = "sleep", !.last_exception = exc,
                   !.waits = Append(@, WaitTime(r.backoff_factor, r.attempt)),
                   !.slept = Append(@, WaitTime(r.backoff_factor, r.attempt))]
    \* the loop ends: raise last_exception
    ELSE [r EXCEPT !.pc = "raised", !.last_exception = exc, !.result = exc]

\* one iteration of the loop up to its next suspension or exit:
\* return await func(*args, **kwargs), and the except clause
Attempt(outcome) ==
    /\ retry.pc = "loop"
    /\ retry.attempt < retry.max_retries
    /\ LET r == [retry EXCEPT !.outcomes = Append(@, outcome), !.slept = <<>>]
       IN  retry' =
             IF outcome = "ok"
             THEN [r EXCEPT !.pc = "returned", !.result = OkResult]
             ELSE IF outcome \in Retryable
             THEN Caught(r, outcome)
             \* not caught by the except clause
             ELSE [r EXCEPT !.pc = "raised", !.result = outcome]
    /\ UNCHANGED <<allCacheVars, keyVars, orchVars, restVars>>

\* func is a client method that ends in _handle_response, and the response
\* has status 429: retry_after = int(response.headers.get('Retry-After', 60)),
\* then await asyncio.sleep(retry_after)
RateLimited(retry_after) ==
    /\ retry.pc = "loop"
    /\ retry.attempt < retry.max_retries
    /\ retry' = [retry EXCEPT !.outcomes = Append(@, "RateLimited"),
                              !.pc = "rate_sleep",
                              !.retry_after = retry_after,
                              !.slept = <<retry_after>>]
    /\ UNCHANGED <<allCacheVars, keyVars, orchVars, restVars>>

\* the sleep of _handle_response returns: raise aiohttp.ClientError("Rate
\* limited"), which the except clause of the wrapper catches
RateLimitRaise ==
    /\ retry.pc = "rate_sleep"
    /\ retry' = Caught(retry, "ClientError")
    /\ UNCHANGED <<allCacheVars, keyVars, orchVars, restVars>>

\* await asyncio.sleep(wait_time) returns; the loop goes to its next iteration
Wake ==
    /\ retry.pc = "sleep"
    /\ retry' = [retry EXCEPT !.pc = "loop", !.attempt = @ + 1]
    /\ UNCHANGED <<allCacheVars, keyVars, orchVars, restVars>>

\* range(max_retries) is empty: raise last_exception with last_exception None
RaiseNone ==
    /\ retry.pc = "loop"
    /\ retry.attempt >= retry.max_retries
    /\ retry' = [retry EXCEPT !.pc = "raised", !.result = "TypeError"]
    /\ UNCHANGED <<allCacheVars, keyVars, orchVars, restVars>>

(***************************************************************************)
(* AdobeEnterpriseOrchestrator: api_call_with_retry, the cache, the        *)
(* semaphore and the metrics one orchestrator shares among its calls.      *)
(* A call is a coroutine; a step of the model runs it from one await to    *)
(* the next: the await of the semaphore, of the remote work and of the     *)
(* backoff sleep.                                                          *)
(***************************************************************************)
Calls == 1..MaxCalls

\* the requests the calls are made with: (endpoint, method, data)
OrchRequests ==
    << [endpoint |-> "/users", method |-> "GET", data |-> [isNone |-> TRUE, items |-> <<>>]],
       [endpoint |-> "/users", method |-> "POST",
        data |-> [isNone |-> FALSE, items |-> << <<"a", "1">> >>]] >>

\* what the awaited remote work of one attempt does: it completes, or it
\* raises an exception (one of a retryable kind, one of another kind)
OrchOutcomes == {"ok", "ClientError", "ValueError"}

NoValue == <<>>                       \* no value: Python's None as a result
NoResult == [kind |-> "-", value |-> NoValue, exc |-> NoRaise]
Returned(value) == [kind |-> "return", value |-> value, exc |-> NoRaise]
Raised(exc) == [kind |-> "raise", value |-> NoValue, exc |-> exc]

\* a call: where it is (pc), its arguments and locals, its outcome, and
\* history: the outcomes of its attempts, its backoff waits, the path it
\* ended by and, for a call answered from the cache, the free slots and the
\* time at the call
IdleCall == [pc |-> "idle", request |-> 0, cache_key |-> <<>>, max_retries |-> 0,
             attempt |-> 0, result |-> NoResult, outcomes |-> <<>>, waits |-> <<>>,
             path |-> "-", sem_at_call |-> 0, called_at |-> 0]

\* 'data': data or {}
ResponseData(data) == IF data.isNone THEN [isNone |-> FALSE, items |-> <<>>] ELSE data

\* response = {'success': True, 'data': data or {}, 'timestamp': now}
Response(data, t) == <<"response", TRUE, ResponseData(data), t>>

\* if cached: get returned a stored response (a non-empty dict, truthy);
\* a miss returned None
IsCached(g) == g.raised = NoRaise /\ g.path = "hit"

\* (fault: a response already stored under the key is kept)
Store_keepFirst(c, key, response, t, cap, dflt) ==
    IF key \in DOMAIN c.cache
    THEN [cache |-> c.cache, order |-> c.order, hits |-> c.hits, misses |-> c.misses,
          evicted |-> None, raised |-> NoRaise]
    ELSE CacheSet(c, key, response, <<ResponseTtl>>, t, cap, dflt)

\* self.cache.set(cache_key, response) with the default ttl
Store_defaultTtl(c, key, response, t, cap, dflt) ==
    CacheSet(c, key, response, NoTtl, t, cap, dflt)

\* self.cache.set(cache_key, response, ttl=300)
Store(c, key, response, t, cap, dflt) ==
    CacheSet(c, key, response, <<ResponseTtl>>, t, cap, dflt)

\* self.metrics['cache_hits'] += 1
CountHit_none(m) == m

CountHit(m) == [m EXCEPT !.cache_hits = @ + 1]

\* self.metrics['api_calls'] += 1
CountCall(m) == [m EXCEPT !.api_calls = @ + 1]

\* self.metrics['api_failures'] += 1
CountFailure_none(m) == m

CountFailure(m) == [m EXCEPT !.api_failures = @ + 1]

\* asyncio.Semaphore: acquire takes a slot when one is free
HasSlot_always(value) == value >= 0

HasSlot(value) == value > 0

Acquire(value) == value - 1

\* asyncio.Semaphore.release, run when the async with block is left
Release_leak(value) == value

Release(value) == value + 1

\* a call that holds a slot is at the remote work or in a backoff sleep
Holding(pc) == pc \in {"remote", "backoff"}

\* CancelledError leaves the coroutine: through the async with block when
\* the slot is held, out of acquire when it is not
Unwind_leak(pc, value) == value

Unwind(pc, value) == IF Holding(pc) THEN Release(value) ELSE value

\* the failed attempts so far of the calls that were not cancelled
FailedAttempts(cs) ==
    LET n[i \in 0..MaxCalls] ==
            IF i = 0 THEN 0
            ELSE n[i - 1] + Cardinality({k \in 1..Len(cs[i].outcomes) : cs[i].outcomes[k] # "ok"})
    IN  n[MaxCalls]

\* for attempt in range(max_retries), entered with the slot held: the next
\* attempt starts, or the range is exhausted and the function ends (the
\* async with block is left, the function returns None)
LoopHead(c, value) ==
    IF c.attempt < c.max_retries
    THEN [call |-> [c EXCEPT !.pc = "remote"], sem |-> value]
    ELSE [call |-> [c EXCEPT !.pc = "returned", !.result = Returned(NoValue)],
          sem |-> Release(value)]

\* async with self.semaphore: the slot is taken and the loop is entered
Enter(c, value) == LoopHead(c, Acquire(value))

\* (fault: the slot given back for the time of the backoff sleep)
Failed_release(c, exc, value, m) ==
    LET c1 == [c EXCEPT !.outcomes = Append(@, exc)]
    IN  IF HasNextAttempt(c.attempt, c.max_retries)
        THEN [call |-> [c1 EXCEPT !.pc = "backoff", !.waits = Append(@, WaitTime(2, c.attempt))],
              sem |-> Release(value), metrics |-> m]
        ELSE [call |-> [c1 EXCEPT !.pc = "raised", !.result = Raised(exc)],
              sem |-> Release(value), metrics |-> CountFailure(m)]

\* except Exception as e: sleep wait_time and go on, or count and re-raise
Failed(c, exc, value, m) ==
    LET c1 == [c EXCEPT !.outcomes = Append(@, exc)]
    IN  IF HasNextAttempt(c.attempt, c.max_retries)
        THEN [call |-> [c1 EXCEPT !.pc = "backoff", !.waits = Append(@, WaitTime(2, c.attempt))],
              sem |-> value, metrics |-> m]
        ELSE [call |-> [c1 EXCEPT !.pc = "raised", !.result = Raised(exc)],
              sem |-> Release(value), metrics |-> CountFailure(m)]

OrchIdle ==
    /\ calls = [i \in Calls |-> IdleCall]
    /\ max_concurrent = MaxConcurrent
    /\ sem_value = MaxConcurrent
    /\ waiters = <<>>
    /\ metrics = [cache_hits |-> 0, api_calls |-> 0, api_failures |-> 0]
    /\ nTicks = 0

\* AdobeEnterpriseOrchestrator(config), config['max_concurrent'] = N
OrchInit ==
    /\ calls = [i \in Calls |-> IdleCall]
    /\ max_concurrent \in 1..MaxConcurrent
    /\ sem_value = max_concurrent
    /\ waiters = <<>>
    /\ metrics = [cache_hits |-> 0, api_calls |-> 0, api_failures |-> 0]
    /\ nTicks = 0

OrchCache == [cache |-> cache, order |-> access_order, hits |-> hits, misses |-> misses]

\* api_call_with_retry(endpoint, method, data, max_retries) up to its first
\* await: the key, the cache lookup, the return of a cached response, or
\* the acquire of the semaphore.  An acquire takes a free slot at once;
\* with no free slot the call waits.  With a free slot and earlier calls
\* still queued the asyncio version decides (barge: take it, or queue).
Call(i, rq, maxr, barge) ==
    /\ calls[i].pc = "idle"
    /\ i > 1 => calls[i - 1].pc # "idle"
    /\ LET request == OrchRequests[rq]
           cache_key == MakeKey(request.endpoint, request.method, request.data)
           g == CacheGet(OrchCache, cache_key, now)
           c == [IdleCall EXCEPT !.request = rq, !.cache_key = cache_key,
                                 !.max_retries = maxr]
       IN  /\ cache' = g.cache
           /\ access_order' = g.order
           /\ hits' = g.hits
           /\ misses' = g.misses
           /\ IF g.raised # NoRaise
              THEN /\ calls' = [calls EXCEPT ![i] =
                                   [c EXCEPT !.pc = "raised", !.result = Raised(g.raised)]]
                   /\ UNCHANGED <<sem_value, waiters, metrics>>
              ELSE IF IsCached(g)
              THEN /\ calls' = [calls EXCEPT ![i] =
                                   [c EXCEPT !.pc = "returned", !.result = Returned(g.ret),
                                             !.path = "cache", !.sem_at_call = sem_value,
                                             !.called_at = now]]
                   /\ metrics' = CountHit(metrics)
                   /\ UNCHANGED <<sem_value, waiters>>
              ELSE IF HasSlot(sem_value) /\ (waiters = <<>> \/ barge)
              THEN /\ calls' = [calls EXCEPT ![i] = Enter(c, sem_value).call]
                   /\ sem_value' = Enter(c, sem_value).sem
                   /\ UNCHANGED <<waiters, metrics>>
              ELSE /\ calls' = [calls EXCEPT ![i] = [c EXCEPT !.pc = "acquire"]]
                   /\ waiters' = Append(waiters, i)
                   /\ UNCHANGED <<sem_value, metrics>>
    /\ UNCHANGED <<max_size, default_ttl, now, last, nOps, nGets, touched, lastSet,
                   keyVars, retry, restVars, max_concurrent, nTicks>>

\* the semaphore wakes the call that has waited longest, which takes the
\* freed slot and enters the loop
Admit(i) ==
    /\ waiters # <<>>
    /\ Head(waiters) = i
    /\ calls[i].pc = "acquire"
    /\ HasSlot(sem_value)
    /\ calls' = [calls EXCEPT ![i] = Enter(calls[i], sem_value).call]
    /\ sem_value' = Enter(calls[i], sem_value).sem
    /\ waiters' = Tail(waiters)
    /\ UNCHANGED <<allCacheVars, keyVars, retry, restVars, max_concurrent, metrics, nTicks>>

\* the awaited remote work of one attempt is over: with outcome "ok" the
\* response is built, stored and returned; an exception (of the work or of
\* cache.set) is handled by the except clause
RemoteDone(i, outcome) ==
    /\ calls[i].pc = "remote"
    /\ outcome # "ok" => FailedAttempts(calls) < MaxFailures
    /\ LET c == calls[i]
           request == OrchRequests[c.request]
           response == Response(request.data, now)
           s == Store(OrchCache, c.cache_key, response, now, max_size, default_ttl)
           exc == IF outcome = "ok" THEN s.raised ELSE outcome
           f == Failed(c, exc, sem_value, metrics)
       IN  IF outcome = "ok" /\ s.raised = NoRaise
           THEN /\ cache' = s.cache
                /\ access_order' = s.order
                /\ metrics' = CountCall(metrics)
                /\ calls' = [calls EXCEPT ![i] =
                                [c EXCEPT !.pc = "returned", !.result = Returned(response),
                                          !.outcomes = Append(@, "ok"), !.path = "remote"]]
                /\ sem_value' = Release(sem_value)
           ELSE /\ calls' = [calls EXCEPT ![i] = f.call]
                /\ sem_value' = f.sem
                /\ metrics' = f.metrics
                /\ UNCHANGED <<cache, access_order>>
    /\ UNCHANGED <<max_size, default_ttl, hits, misses, now, last, nOps, nGets, touched,
                   lastSet, keyVars, retry, restVars, max_concurrent, waiters, nTicks>>

\* await asyncio.sleep(wait_time) is over: the loop goes to the next attempt
BackoffDone(i) ==
    /\ calls[i].pc = "backoff"
    /\ LET h == LoopHead([calls[i] EXCEPT !.attempt = @ + 1], sem_value)
       IN  /\ calls' = [calls EXCEPT ![i] = h.call]
           /\ sem_value' = h.sem
    /\ UNCHANGED <<allCacheVars, keyVars, retry, restVars, max_concurrent, waiters, metrics, nTicks>>

\* the caller cancels the call while it is suspended: CancelledError is
\* raised at the await; it is not an Exception, so the except clause does
\* not handle it.  The frame of the call is gone: what is kept of it is
\* its request, the exception and the await it was cancelled at (path).
Cancel(i) ==
    /\ calls[i].pc \in {"acquire", "remote", "backoff"}
    /\ calls' = [calls EXCEPT ![i] =
                    [IdleCall EXCEPT !.pc = "cancelled", !.request = calls[i].request,
                                     !.result = Raised("CancelledError"),
                                     !.path = calls[i].pc]]
    /\ sem_value' = Unwind(calls[i].pc, sem_value)
    /\ waiters' = SelectSeq(waiters, LAMBDA w : w # i)
    /\ UNCHANGED <<allCacheVars, keyVars, retry, restVars, max_concurrent, metrics, nTicks>>

\* time passes
OrchTick(d) ==
    /\ nTicks < MaxTicks
    /\ nTicks' = nTicks + 1
    /\ now' = now + d
    /\ UNCHANGED <<cacheVars, last, nOps, nGets, touched, lastSet, keyVars, retry, restVars,
                   calls, sem_value, waiters, max_concurrent, metrics>>

(***************************************************************************)
(* AdobeEnterpriseOrchestrator.process_user_batch(users, operation): one   *)
(* task per user runs process_single; asyncio.gather collects what the     *)
(* tasks return.  A task is run from its start to its await of             *)
(* api_call_with_retry (or to its return when it makes no call), and from  *)
(* the end of that call to its return.                                     *)
(***************************************************************************)
\* the users a batch is made of: AdobeUser(email, department, products,
\* usage_hours_monthly, last_active_days)
UserPool ==
    { [email |-> "a@x", department |-> "Design", products |-> <<"Photoshop", "Acrobat">>,
       usage_hours_monthly |-> 50, last_active_days |-> 10],
      [email |-> "b@x", department |-> "Sales", products |-> <<"Acrobat">>,
       usage_hours_monthly |-> 10, last_active_days |-> 10],
      [email |-> "c@x", department |-> "Video", products |-> <<"Audition">>,
       usage_hours_monthly |-> 150, last_active_days |-> 90] }

Operations == {"optimize", "provision", "audit"}

\* the exceptions api_call_with_retry raises to process_single
ApiErrors == {"ClientError", "ValueError"}

SeqsUpTo(S, n) == UNION {[1..k -> S] : k \in 0..n}

ToSet(s) == {s[i] : i \in 1..Len(s)}

\* s[:k]
Take(s, k) == SubSeq(s, 1, IF k < Len(s) THEN k ELSE Len(s))

\* MLPredictor.predict_churn, in tenths: the rules when the models are not
\* trained, np.random.random() * 0.5 when they are
ChurnScores(user, is_trained) ==
    IF ~is_trained
    THEN IF user.last_active_days > 60 THEN {8}
         ELSE IF user.last_active_days > 30 THEN {5}
         ELSE IF user.usage_hours_monthly < 5 THEN {4}
         ELSE {1}
    ELSE 0..4

\* department_products.get(user.department, ['Creative Cloud'])
DepartmentProducts(department) ==
    CASE department = "Design" -> <<"Photoshop", "Illustrator", "XD">>
      [] department = "Marketing" -> <<"Creative Cloud", "Photoshop", "InDesign">>
      [] department = "Video" -> <<"Premiere Pro", "After Effects", "Audition">>
      [] department = "Engineering" -> <<"XD", "Dreamweaver">>
      [] department = "Sales" -> <<"Acrobat", "Sign">>
      [] OTHER -> <<"Creative Cloud">>

\* MLPredictor.predict_optimal_products
PredictOptimalProducts(user) ==
    LET base_products == DepartmentProducts(user.department)
    IN  IF user.usage_hours_monthly > 100 THEN Take(base_products, 3)
        ELSE IF user.usage_hours_monthly > 20 THEN Take(base_products, 2)
        ELSE Take(base_products, 1)

\* len(set(user.products) - set(optimal_products)) * 50
OptimizationPotential(user) ==
    Cardinality(ToSet(user.products) \ ToSet(PredictOptimalProducts(user))) * 50

\* the dicts process_single returns
Outcome(email, action, detail) == [kind |-> "dict", user |-> email, action |-> action,
                                   detail |-> detail]
NoOutcome == [kind |-> "-", user |-> "-", action |-> "-", detail |-> <<>>]

\* process_single(user) up to its await or return: the endpoint it calls
\* ("-" when it makes no call) and the dict it returns when the call returns
ProcessSingle(user, operation, churn_score) ==
    LET predicted_churn == churn_score > 5
        optimization_potential == OptimizationPotential(user)
    IN  IF operation = "optimize" /\ (predicted_churn \/ user.last_active_days > 60)
        THEN [call |-> "deprovision",
              dict |-> Outcome(user.email, "deprovisioned",
                               <<"savings", Len(user.products) * 50>>)]
        ELSE IF operation = "optimize" /\ optimization_potential > 0
        THEN [call |-> "products",
              dict |-> Outcome(user.email, "optimized",
                               <<"savings", optimization_potential>>)]
        ELSE IF operation = "provision"
        THEN [call |-> "provision",
              dict |-> Outcome(user.email, "provisioned", <<"products", user.products>>)]
        ELSE [call |-> "-", dict |-> Outcome(user.email, "no_change", <<>>)]

\* except Exception as e: return {'user': ..., 'action': 'error', 'error': str(e)}
ErrorOutcome(user, exc) == Outcome(user.email, "error", <<"error", exc>>)

\* the results in the order the tasks completed
CollectResults_byCompletion(tasks, completed) ==
    [k \in 1..Len(completed) |-> tasks[completed[k]].result]

\* asyncio.gather(*tasks, return_exceptions=True): the results in the order
\* of the tasks
CollectResults(tasks, completed) == [i \in 1..Len(tasks) |-> tasks[i].result]

\* [r for r in results if not isinstance(r, Exception)]
FilterExceptions(results) == SelectSeq(results, LAMBDA r : r.kind # "exception")

NewTask == [pc |-> "created", call |-> "-", on_return |-> NoOutcome,
            result |-> NoOutcome, raised |-> NoRaise]

BatchIdle == batch = [pc |-> "idle"]

BatchInit ==
    \E users \in SeqsUpTo(UserPool, MaxUsers), operation \in Operations,
       is_trained \in BOOLEAN :
        batch = [pc |-> "gather", users |-> users, operation |-> operation,
                 is_trained |-> is_trained,
                 tasks |-> [i \in 1..Len(users) |-> NewTask],
                 completed |-> <<>>, results |-> <<>>, ret |-> <<>>]

NotBatch == <<allCacheVars, keyVars, retry, orchVars, listing, bulk, job>>

\* a task starts (the tasks start in the order of the list) and runs to
\* its await of api_call_with_retry, or to its return
TaskStart(i, churn_score) ==
    /\ batch.pc = "gather"
    /\ i \in 1..Len(batch.tasks)
    /\ batch.tasks[i].pc = "created"
    /\ i > 1 => batch.tasks[i - 1].pc # "created"
    /\ churn_score \in ChurnScores(batch.users[i], batch.is_trained)
    /\ LET p == ProcessSingle(batch.users[i], batch.operation, churn_score)
       IN  IF p.call = "-"
           THEN batch' = [batch EXCEPT !.tasks[i].pc = "done",
                                       !.tasks[i].result = p.dict,
                                       !.completed = Append(@, i)]
           ELSE batch' = [batch EXCEPT !.tasks[i].pc = "awaiting",
                                       !.tasks[i].call = p.call,
                                       !.tasks[i].on_return = p.dict]
    /\ UNCHANGED NotBatch

\* api_call_with_retry returned: the task returns its dict
ApiReturn(i) ==
    /\ batch.pc = "gather"
    /\ i \in 1..Len(batch.tasks)
    /\ batch.tasks[i].pc = "awaiting"
    /\ batch' = [batch EXCEPT !.tasks[i].pc = "done",
                              !.tasks[i].result = batch.tasks[i].on_return,
                              !.completed = Append(@, i)]
    /\ UNCHANGED NotBatch

\* api_call_with_retry raised: the task returns the error dict
ApiRaise(i, exc) ==
    /\ batch.pc = "gather"
    /\ i \in 1..Len(batch.tasks)
    /\ batch.tasks[i].pc = "awaiting"
    /\ batch' = [batch EXCEPT !.tasks[i].pc = "done",
                              !.tasks[i].raised = exc,
                              !.tasks[i].result = ErrorOutcome(batch.users[i], exc),
                              !.completed = Append(@, i)]
    /\ UNCHANGED NotBatch

\* all tasks are done: gather returns, the exceptions are filtered out
GatherDone ==
    /\ batch.pc = "gather"
    /\ \A i \in 1..Len(batch.tasks) : batch.tasks[i].pc = "done"
    /\ LET results == CollectResults(batch.tasks, batch.completed)
       IN  batch' = [batch EXCEPT !.pc = "returned", !.results = results,
                                  !.ret = FilterExceptions(results)]
    /\ UNCHANGED NotBatch

(***************************************************************************)
(* AdobeAPIClient.get_all_users(page_size): the pages of the user list are *)
(* requested one after another, each response going through                *)
(* _handle_response.  The method is not decorated with retry_on_error.     *)
(***************************************************************************)
\* what the server answers to one request: the status, the Retry-After
\* header (<<>> when absent), and the body {"users": [...], "lastPage": ...}
\* ("-" when the body has no lastPage)
Statuses == {200, 429, 500}
Responses ==
    [status : {200}, retry_after : {<<>>}, users : {<<>>, <<"u">>, <<"u", "v">>},
     lastPage : {"True", "False", "-"}]
    \cup [status : {429}, retry_after : {<<>>} \cup {<<r>> : r \in 1..MaxRetryAfter},
          users : {<<>>}, lastPage : {"-"}]
    \cup [status : {500}, retry_after : {<<>>}, users : {<<>>}, lastPage : {"-"}]

\* int(response.headers.get('Retry-After', 60))
RetryAfter(response) ==
    IF response.retry_after = <<>> THEN DefaultRetryAfter ELSE response.retry_after[1]

\* data.get("lastPage", True)
LastPage(response) == response.lastPage # "False"

\* _handle_response: the body, a sleep followed by a raise, or a raise
HandleResponse(response) ==
    IF response.status \in {200, 201}
    THEN [kind |-> "json", sleep |-> 0, exc |-> NoRaise]
    ELSE IF response.status = 429
    THEN [kind |-> "sleep_raise", sleep |-> RetryAfter(response), exc |-> "ClientError"]
    ELSE [kind |-> "raise", sleep |-> 0, exc |-> "ClientError"]

ListIdle == listing = [pc |-> "idle"]

ListInit ==
    listing = [pc |-> "request", page |-> 0, users |-> <<>>, statuses |-> <<>>,
               slept |-> <<>>, raised |-> NoRaise]

NotListing == <<allCacheVars, keyVars, retry, orchVars, batch, bulk, job>>

\* one iteration of while True: the request of a page and its response
PageResponse(response) ==
    /\ listing.pc = "request"
    /\ ~LastPage(response) => listing.page < MaxPages
    /\ LET h == HandleResponse(response)
           l == [listing EXCEPT !.statuses = Append(@, response.status)]
       IN  IF h.kind = "json"
           THEN IF LastPage(response)
                THEN listing' = [l EXCEPT !.users = @ \o response.users,
                                          !.pc = "returned"]
                ELSE listing' = [l EXCEPT !.users = @ \o response.users,
                                          !.page = @ + 1]
           ELSE IF h.kind = "sleep_raise"
           THEN listing' = [l EXCEPT !.pc = "rate_sleep", !.slept = Append(@, h.sleep)]
           ELSE listing' = [l EXCEPT !.pc = "raised", !.raised = h.exc]
    /\ UNCHANGED NotListing

\* asyncio.sleep(retry_after) returns: raise aiohttp.ClientError("Rate
\* limited"), which leaves get_all_users
ListRateLimitRaise ==
    /\ listing.pc = "rate_sleep"
    /\ listing' = [listing EXCEPT !.pc = "raised", !.raised = "ClientError"]
    /\ UNCHANGED NotListing

(***************************************************************************)
(* AdobeBulkProcessor.process_csv(csv_path, batch_size): the rows of the   *)
(* file are processed in slices of batch_size rows; _process_batch creates *)
(* one _create_user task per row, gathers them and updates the statistics. *)
(***************************************************************************)
Min(a, b) == IF a < b THEN a ELSE b

\* df.iloc[i:i+batch_size] of a frame of n rows: the rows are numbered from 1
Slice_head(i, batch_size, n) == [k \in 1..Min(batch_size, n) |-> k]
Slice(i, batch_size, n) == [k \in 1..(Min(i + batch_size, n) - i) |-> i + k]

\* what _create_user returns: {"success": True, ...} or {"success": False, ...};
\* it catches every Exception of the request
CreateResults == {"success", "failure"}
\* _ensure_token_valid: the token is still valid, or it has expired and
\* _authenticate renews it or raises
TokenStates == {"valid", "renewed", "failed"}

EmptyStats == [processed |-> 0, successful |-> 0, failed |-> 0]

\* for result in results: the statistics after the results of one batch
RECURSIVE UpdateStats(_, _)
UpdateStats(stats, results) ==
    IF results = <<>> THEN stats
    ELSE UpdateStats(
             [stats EXCEPT !.processed = @ + 1,
                           !.successful = IF Head(results) = "success" THEN @ + 1 ELSE @,
                           !.failed = IF Head(results) = "success" THEN @ ELSE @ + 1],
             Tail(results))

BulkIdle == bulk = [pc |-> "idle"]

BulkInit ==
    \E n \in 0..MaxBulkUsers, batch_size \in 0..MaxBatchSize :
        bulk = [pc |-> "loop", total_users |-> n, batch_size |-> batch_size,
                i |-> 0, tasks |-> <<>>, batches |-> <<>>, finished |-> 0,
                stats |-> EmptyStats, raised |-> NoRaise]

NotBulk == <<allCacheVars, keyVars, retry, orchVars, batch, listing, job>>

\* range(0, total_users, 0) raises ValueError
BulkRangeError ==
    /\ bulk.pc = "loop"
    /\ bulk.batch_size = 0
    /\ bulk' = [bulk EXCEPT !.pc = "raised", !.raised = "ValueError"]
    /\ UNCHANGED NotBulk

\* the next i of the range: the slice is taken and _process_batch starts,
\* checks the token and creates the tasks of the rows
ProcessBatchStart(token) ==
    /\ bulk.pc = "loop"
    /\ bulk.batch_size > 0
    /\ bulk.i < bulk.total_users
    /\ LET rows == Slice(bulk.i, bulk.batch_size, bulk.total_users)
           b == [bulk EXCEPT !.batches = Append(@, rows)]
       IN  IF token = "failed"
           THEN bulk' = [b EXCEPT !.pc = "raised", !.raised = "Exception"]
           ELSE bulk' = [b EXCEPT !.pc = "gather",
                                  !.tasks = [k \in 1..Len(rows) |-> "pending"]]
    /\ UNCHANGED NotBulk

\* one _create_user task of the batch returns
CreateUserDone(k, result) ==
    /\ bulk.pc = "gather"
    /\ k \in 1..Len(bulk.tasks)
    /\ bulk.tasks[k] = "pending"
    /\ bulk' = [bulk EXCEPT !.tasks[k] = result]
    /\ UNCHANGED NotBulk

\* gather returns: the statistics are updated, _process_batch returns and
\* the loop moves to the next i
ProcessBatchDone ==
    /\ bulk.pc = "gather"
    /\ \A k \in 1..Len(bulk.tasks) : bulk.tasks[k] # "pending"
    /\ bulk' = [bulk EXCEPT !.stats = UpdateStats(@, bulk.tasks),
                            !.tasks = <<>>,
                            !.finished = @ + 1,
                            !.i = @ + bulk.batch_size,
                            !.pc = "loop"]
    /\ UNCHANGED NotBulk

\* the range is exhausted: return self._generate_report()
BulkReturn ==
    /\ bulk.pc = "loop"
    /\ bulk.batch_size > 0
    /\ bulk.i >= bulk.total_users
    /\ bulk' = [bulk EXCEPT !.pc = "returned"]
    /\ UNCHANGED NotBulk

(***************************************************************************)
(* PDFProcessor.process_job(job): the job is marked 'processing', routed   *)
(* to the handler of its operation, and marked 'completed' or 'failed';    *)
(* _update_job_status publishes the status to Redis after each change.     *)
(***************************************************************************)
PDFOperations ==
    {"merge", "split", "compress", "ocr", "encrypt", "decrypt", "watermark",
     "rotate", "extract_text", "extract_images", "convert_to_image",
     "add_signature", "redact", "fill_form", "create_from_template"}
\* the keys of handler_map
HandlerMap ==
    {"merge", "split", "compress", "ocr", "encrypt", "watermark",
     "extract_text", "convert_to_image", "redact", "fill_form"}
\* the ways an awaited step ends
HandlerOutcomes == {"ok", "Exception"}
StoreOutcomes == {"ok", "RedisError"}

JobIdle == job = [pc |-> "idle"]

\* a new PDFJob, and a processor with or without a Redis client
\* (redis_client is None until initialize() has run)
JobInit ==
    \E operation \in PDFOperations, redis_client \in BOOLEAN :
        job = [pc |-> "start", operation |-> operation, status |-> "pending",
               completed_at |-> <<>>, error_message |-> <<>>, metadata |-> <<>>,
               redis_client |-> redis_client, store |-> <<>>,
               failure |-> NoRaise, raised |-> NoRaise]

NotJob == <<allCacheVars, keyVars, retry, orchVars, batch, listing, bulk>>

\* except Exception as e: job.status = "failed"; job.error_message = str(e)
JobFailed(j, exc) ==
    [j EXCEPT !.status = "failed", !.error_message = <<exc>>,
              !.failure = exc, !.pc = "publish_final"]

\* job.status = "processing", up to the await of _update_job_status
MarkProcessing ==
    /\ job.pc = "start"
    /\ job' = [job EXCEPT !.status = "processing", !.pc = "publish_processing"]
    /\ UNCHANGED NotJob

\* the first _update_job_status returns or raises, then the handler is
\* looked up, up to the await of the handler
PublishProcessing(outcome) ==
    /\ job.pc = "publish_processing"
    /\ ~job.redis_client => outcome = "ok"
    /\ LET j == IF job.redis_client /\ outcome = "ok"
                THEN [job EXCEPT !.store = Append(@, job.status)]
                ELSE job
       IN  IF outcome # "ok"
           THEN job' = JobFailed(j, outcome)
           ELSE IF job.operation \notin HandlerMap
           THEN job' = JobFailed(j, "ValueError")
           ELSE job' = [j EXCEPT !.pc = "handler"]
    /\ UNCHANGED NotJob

\* the handler returns its result or raises
HandlerDone(outcome) ==
    /\ job.pc = "handler"
    /\ IF outcome = "ok"
       THEN job' = [job EXCEPT !.status = "completed", !.completed_at = <<"utcnow">>,
                               !.metadata = <<"result">>, !.pc = "publish_final"]
       ELSE job' = JobFailed(job, outcome)
    /\ UNCHANGED NotJob

\* the task is cancelled while it awaits the handler: CancelledError is not
\* an Exception and leaves process_job
JobCancel ==
    /\ job.pc = "handler"
    /\ job' = [job EXCEPT !.pc = "raised", !.raised = "CancelledError"]
    /\ UNCHANGED NotJob

\* the second _update_job_status, outside the try, returns or raises
PublishFinal(outcome) ==
    /\ job.pc = "publish_final"
    /\ ~job.redis_client => outcome = "ok"
    /\ IF outcome = "ok"
       THEN job' = [job EXCEPT !.pc = "returned",
                               !.store = IF job.redis_client
                                         THEN Append(@, job.status) ELSE @]
       ELSE job' = [job EXCEPT !.pc = "raised", !.raised = outcome]
    /\ UNCHANGED NotJob

\* the components that are not in use
RestIdle == BatchIdle /\ ListIdle /\ BulkIdle /\ JobIdle

(***************************************************************************)
(* The cache as a state machine: one action per method call.               *)
(***************************************************************************)
Self == [cache |-> cache, order |-> access_order, hits |-> hits, misses |-> misses]

NoStats == [hits |-> 0, misses |-> 0, hit_rate |-> <<0, 1>>, size |-> 0, max_size |-> 0]

NoCall == [op |-> "init", key |-> None, ttl |-> NoTtl, at |-> 0,
           ret |-> None, raised |-> NoRaise, path |-> "-", evicted |-> None,
           stats |-> NoStats]

\* History of the calls: the keys by the time of their latest hit or set
\* (oldest first), kept for the keys that are in the table.
Touch(h, key) == Append(SelectSeq(h, LAMBDA k : k # key), key)
Present(h, keys) == SelectSeq(h, LAMBDA k : k \in keys)

\* InMemoryCache(max_size, default_ttl)
CacheInit ==
    /\ cache = EmptyDict
    /\ access_order = <<>>
    /\ max_size \in 0..MaxSize
    /\ default_ttl \in {0, MaxDefaultTtl}
    /\ hits = 0
    /\ misses = 0
    /\ now = 0
    /\ last = NoCall
    /\ nOps = 0
    /\ nGets = 0
    /\ touched = <<>>
    /\ lastSet = EmptyDict

Get(key) ==
    /\ nOps < MaxSteps
    /\ LET r == CacheGet(Self, key, now)
       IN  /\ cache' = r.cache
           /\ access_order' = r.order
           /\ hits' = r.hits
           /\ misses' = r.misses
           /\ last' = [op |-> "get", key |-> key, ttl |-> NoTtl, at |-> now,
                       ret |-> r.ret, raised |-> r.raised, path |-> r.path,
                       evicted |-> None, stats |-> NoStats]
           /\ touched' = Present(IF r.ret # None THEN Touch(touched, key) ELSE touched,
                                  DOMAIN r.cache)
           /\ lastSet' = [k \in DOMAIN lastSet \cap DOMAIN r.cache |-> lastSet[k]]
    /\ nOps' = nOps + 1
    /\ nGets' = nGets + 1
    /\ UNCHANGED <<max_size, default_ttl, now, keyVars, retry, orchVars, restVars>>

Set(key, value, ttl) ==
    /\ nOps < MaxSteps
    /\ LET r == CacheSet(Self, key, value, ttl, now, max_size, default_ttl)
       IN  /\ cache' = r.cache
           /\ access_order' = r.order
           /\ hits' = r.hits
           /\ misses' = r.misses
           /\ last' = [op |-> "set", key |-> key, ttl |-> ttl, at |-> now,
                       ret |-> None, raised |-> r.raised,
                       path |-> IF key \in DOMAIN cache THEN "overwrite"
                                ELSE IF AtCapacity(cache, key, max_size) THEN "evict"
                                ELSE "insert",
                       evicted |-> r.evicted, stats |-> NoStats]
           /\ touched' = Present(IF r.raised = NoRaise THEN Touch(touched, key)
                                  ELSE touched, DOMAIN r.cache)
           /\ lastSet' = LET ls == IF r.raised = NoRaise
                                    THEN DictPut(lastSet, key, value) ELSE lastSet
                         IN  [k \in DOMAIN ls \cap DOMAIN r.cache |-> ls[k]]
    /\ nOps' = nOps + 1
    /\ UNCHANGED <<max_size, default_ttl, now, nGets, keyVars, retry, orchVars, restVars>>

GetStats ==
    /\ nOps < MaxSteps
    /\ last' = [op |-> "get_stats", key |-> None, ttl |-> NoTtl, at |-> now,
                ret |-> None, raised |-> NoRaise, path |-> "-", evicted |-> None,
                stats |-> CacheStats(Self, max_size)]
    /\ nOps' = nOps + 1
    /\ UNCHANGED <<cacheVars, now, nGets, touched, lastSet, keyVars, retry, orchVars, restVars>>

\* time passes between two calls
Tick ==
    /\ nOps < MaxSteps
    /\ now' = now + 1
    /\ nOps' = nOps + 1
    /\ UNCHANGED <<cacheVars, last, nGets, touched, lastSet, keyVars, retry, orchVars, restVars>>

Init == CacheInit /\ KeyIdle /\ RetryIdle /\ OrchIdle /\ RestIdle

\* a cache that is constructed and not used
CacheInitIdle == CacheInit /\ max_size = MaxSize /\ default_ttl = MaxDefaultTtl

Next ==
    \/ \E key \in Keys : Get(key)
    \/ \E key \in Keys, value \in Values, ttl \in Ttls : Set(key, value, ttl)
    \/ GetStats
    \/ Tick

Spec == Init /\ [][Next]_vars

\* the key derivation applied to any two requests
KeySpecInit == CacheInitIdle /\ KeyInit /\ RetryIdle /\ OrchIdle /\ RestIdle
KeyNext == Derive
SpecKey == KeySpecInit /\ [][KeyNext]_vars

\* one call of a coroutine decorated with retry_on_error
RetrySpecInit == CacheInitIdle /\ KeyIdle /\ RetryInit /\ OrchIdle /\ RestIdle
RetryNext ==
    \/ \E outcome \in Outcomes : Attempt(outcome)
    \/ Wake
    \/ RaiseNone
    \/ \E retry_after \in 1..MaxRetryAfter : RateLimited(retry_after)
    \/ RateLimitRaise
SpecRetry == RetrySpecInit /\ [][RetryNext]_vars

\* one orchestrator and the calls of api_call_with_retry made on it
\* self.cache = InMemoryCache()
OrchCacheInit ==
    /\ cache = EmptyDict
    /\ access_order = <<>>
    /\ max_size = DefaultMaxSize
    /\ default_ttl = DefaultTtl
    /\ hits = 0
    /\ misses = 0
    /\ now = 0
    /\ last = NoCall
    /\ nOps = 0
    /\ nGets = 0
    /\ touched = <<>>
    /\ lastSet = EmptyDict
OrchSpecInit == OrchCacheInit /\ KeyIdle /\ RetryIdle /\ OrchInit /\ RestIdle
OrchNext ==
    \/ \E i \in Calls, rq \in 1..Len(OrchRequests), maxr \in 0..MaxCallRetries, barge \in BOOLEAN :
          Call(i, rq, maxr, barge)
    \/ \E i \in Calls : Admit(i)
    \/ \E i \in Calls, outcome \in OrchOutcomes : RemoteDone(i, outcome)
    \/ \E i \in Calls : BackoffDone(i)
    \/ \E i \in Calls : Cancel(i)
    \/ \E d \in {ResponseTtl - 1, ResponseTtl} : OrchTick(d)
SpecOrch == OrchSpecInit /\ [][OrchNext]_vars

\* the same under fair scheduling: the event loop resumes a call that can
\* be admitted, and every remote attempt and every backoff sleep ends
OrchFairness ==
    \A i \in Calls :
        /\ WF_vars(Admit(i))
        /\ WF_vars(\E outcome \in OrchOutcomes : RemoteDone(i, outcome))
        /\ WF_vars(BackoffDone(i))
SpecOrchLive == OrchSpecInit /\ [][OrchNext]_vars /\ OrchFairness

\* the orchestrator with a cache that fills: the code reads the capacity
\* only in len(self._cache) >= self.max_size, so the table of 1000 entries
\* filled by 1000 distinct requests is represented by a table of
\* 1..MaxSize entries filled by the requests of OrchRequests
EvictCacheInit ==
    /\ cache = EmptyDict
    /\ access_order = <<>>
    /\ max_size \in 1..MaxSize
    /\ default_ttl = DefaultTtl
    /\ hits = 0
    /\ misses = 0
    /\ now = 0
    /\ last = NoCall
    /\ nOps = 0
    /\ nGets = 0
    /\ touched = <<>>
    /\ lastSet = EmptyDict
EvictSpecInit == EvictCacheInit /\ KeyIdle /\ RetryIdle /\ OrchInit /\ RestIdle
SpecOrchEvict == EvictSpecInit /\ [][OrchNext]_vars

\* one call of process_user_batch
BatchSpecInit ==
    /\ CacheInitIdle /\ KeyIdle /\ RetryIdle /\ OrchIdle
    /\ BatchInit /\ ListIdle /\ BulkIdle /\ JobIdle
BatchNext ==
    \/ \E i \in 1..MaxUsers, churn_score \in 0..8 : TaskStart(i, churn_score)
    \/ \E i \in 1..MaxUsers : ApiReturn(i)
    \/ \E i \in 1..MaxUsers, exc \in ApiErrors : ApiRaise(i, exc)
    \/ GatherDone
SpecBatch == BatchSpecInit /\ [][BatchNext]_vars

\* one call of get_all_users
ListSpecInit ==
    /\ CacheInitIdle /\ KeyIdle /\ RetryIdle /\ OrchIdle
    /\ BatchIdle /\ ListInit /\ BulkIdle /\ JobIdle
ListNext ==
    \/ \E response \in Responses : PageResponse(response)
    \/ ListRateLimitRaise
SpecList == ListSpecInit /\ [][ListNext]_vars

\* one call of process_csv
BulkSpecInit ==
    /\ CacheInitIdle /\ KeyIdle /\ RetryIdle /\ OrchIdle
    /\ BatchIdle /\ ListIdle /\ BulkInit /\ JobIdle
BulkNext ==
    \/ BulkRangeError
    \/ \E token \in TokenStates : ProcessBatchStart(token)
    \/ \E k \in 1..MaxBatchSize, result \in CreateResults : CreateUserDone(k, result)
    \/ ProcessBatchDone
    \/ BulkReturn
SpecBulk == BulkSpecInit /\ [][BulkNext]_vars

\* one call of process_job
JobSpecInit ==
    /\ CacheInitIdle /\ KeyIdle /\ RetryIdle /\ OrchIdle
    /\ BatchIdle /\ ListIdle /\ BulkIdle /\ JobInit
JobNext ==
    \/ MarkProcessing
    \/ \E outcome \in StoreOutcomes : PublishProcessing(outcome)
    \/ \E outcome \in HandlerOutcomes : HandlerDone(outcome)
    \/ JobCancel
    \/ \E outcome \in StoreOutcomes : PublishFinal(outcome)
SpecJob == JobSpecInit /\ [][JobNext]_vars

(***************************************************************************)
(* Properties of the cache.                                                *)
(***************************************************************************)
\* the step is a call of get(key) / set(key, ..) / get_stats()
IsCall == nOps' = nOps + 1 /\ now' = now
GetCall(key) == IsCall /\ last'.op = "get" /\ last'.key = key
SetCall(key) == IsCall /\ last'.op = "set" /\ last'.key = key
StatsCall == IsCall /\ last'.op = "get_stats"

Size == Cardinality(DOMAIN cache)
Without(order, key) == SelectSeq(order, LAMBDA k : k # key)

\* C1: the number of entries of the table never exceeds max_size.
C1_Capacity == Size <= max_size

\* a full table of two entries that a set has just evicted from
C1_Witness ==
    /\ max_size = 2
    /\ Size = 2
    /\ last.op = "set"
    /\ last.evicted # None

\* C2: the recency list holds exactly the keys of the table, each once.
C2_SameKeys ==
    /\ {access_order[i] : i \in 1..Len(access_order)} = DOMAIN cache
    /\ Len(access_order) = Size

\* two entries, after a hit reordered the list and a set evicted from it
C2_Witness ==
    /\ Len(access_order) = 2
    /\ hits >= 1
    /\ last.op = "set"
    /\ last.evicted # None

\* C3: get returns a value only for a key whose entry is present with
\* now < expires_at; for a present key with now >= expires_at it removes the
\* entry from the table and the recency list, counts a miss and no hit, and
\* returns None.
C3_NoExpiredValue ==
    [][\A key \in Keys : GetCall(key) =>
          /\ last'.ret # None =>
                /\ key \in DOMAIN cache
                /\ now < cache[key].expiry
                /\ last'.ret = cache[key].value
          /\ (key \in DOMAIN cache /\ now >= cache[key].expiry) =>
                /\ last'.ret = None
                /\ last'.raised = NoRaise
                /\ key \notin DOMAIN cache'
                /\ ~InList(access_order', key)
                /\ misses' = misses + 1
                /\ hits' = hits]_vars

\* a get has just found its key expired, some time after the entry was stored
C3_Witness ==
    /\ last.op = "get"
    /\ last.path = "expired"
    /\ last.ret = None
    /\ now > 0
    /\ default_ttl > 0
    /\ misses = 1

\* C4: set of a key that is not present, on a table holding max_size >= 1
\* entries, removes exactly one entry: that of the key whose latest hit or set
\* is the oldest among the present keys, whatever has expired.
C4_EvictsLeastRecent ==
    [][\A key \in Keys :
          (SetCall(key) /\ key \notin DOMAIN cache /\ Size = max_size /\ max_size >= 1) =>
             LET victim == Head(touched)
             IN  /\ last'.raised = NoRaise
                 /\ last'.evicted = victim
                 /\ victim \in DOMAIN cache
                 /\ DOMAIN cache' = (DOMAIN cache \ {victim}) \cup {key}
                 /\ \A k \in DOMAIN cache \ {victim} : cache'[k] = cache[k]
                 /\ access_order' = Append(Without(access_order, victim), key)]_vars

\* capacity 2: after sets of A and B and a hit on A, the set of C evicted B
C4_Witness ==
    /\ max_size = 2
    /\ nOps = 4
    /\ hits = 1
    /\ last.op = "set"
    /\ last.key = "C"
    /\ last.evicted = "B"
    /\ access_order = <<"A", "C">>

\* C5: get of a present, unexpired key returns the value of the latest set of
\* the key, adds 1 to hits and nothing to misses, moves the key to the end of
\* the recency list, and leaves the order of the other keys and the entries
\* as they were.
C5_Hit ==
    [][\A key \in Keys :
          (GetCall(key) /\ key \in DOMAIN cache /\ now < cache[key].expiry) =>
             /\ last'.ret = lastSet[key]
             /\ last'.raised = NoRaise
             /\ hits' = hits + 1
             /\ misses' = misses
             /\ access_order' = Append(Without(access_order, key), key)
             /\ cache' = cache]_vars

\* the fourth call is a hit: it returned v2 and its key is now behind another
C5_Witness ==
    /\ last.op = "get"
    /\ last.path = "hit"
    /\ last.ret = "v2"
    /\ Len(access_order) = 2
    /\ access_order[2] = last.key
    /\ nOps = 4

\* C6 (as claimed): after set(key, value, ttl=0), a get(key) at a later time
\* returns None and counts a miss, whatever default_ttl is.
C6_ZeroTtlExpires ==
    [][\A key \in Keys :
          (/\ last.op = "set" /\ last.key = key /\ last.ttl = <<0>>
           /\ last.raised = NoRaise
           /\ now > last.at
           /\ GetCall(key)) =>
             /\ last'.ret = None
             /\ misses' = misses + 1
             /\ hits' = hits]_vars

\* C7 (as claimed): with max_size = 0 every set returns normally and leaves
\* the table empty, and every get returns None and counts a miss.
C7_ZeroCapacity ==
    max_size = 0 =>
        /\ Size = 0
        /\ last.op = "set" => last.raised = NoRaise
        /\ last.op = "get" => (last.ret = None /\ last.path # "hit")
        /\ hits = 0
        /\ misses = nGets

\* C8: get_stats changes nothing of the cache; a get adds exactly 1 to exactly
\* one of hits and misses; a set changes neither; the counters never
\* decrease and hits + misses is the number of get calls made.
C8_Counters ==
    [][/\ StatsCall => UNCHANGED cacheVars
       /\ (\E key \in Keys : GetCall(key)) =>
             \/ hits' = hits + 1 /\ misses' = misses
             \/ hits' = hits /\ misses' = misses + 1
       /\ (\E key \in Keys : SetCall(key)) => UNCHANGED <<hits, misses>>
       /\ hits' >= hits
       /\ misses' >= misses
       /\ hits' + misses' = nGets']_vars

\* get_stats called after a hit and a miss
C8_Witness ==
    /\ last.op = "get_stats"
    /\ last.stats.hits = 1
    /\ last.stats.misses >= 1
    /\ last.stats.size >= 1

(***************************************************************************)
(* Properties of the key derivation.                                       *)
(***************************************************************************)
\* the field/value pairs of a body, whatever the order of insertion
Content(data) == {data.items[i] : i \in 1..Len(data.items)}

\* equal endpoint and method, and bodies of the same field/value pairs
SameRequest(r1, r2) ==
    /\ r1.endpoint = r2.endpoint
    /\ r1.method = r2.method
    /\ r1.data.isNone = r2.data.isNone
    /\ Content(r1.data) = Content(r2.data)

\* C9 (as claimed): two requests get the same cache key exactly when they
\* have equal endpoint and method and bodies of the same field/value pairs,
\* in whatever order the pairs were inserted.
C9_KeyOfLogicalRequest ==
    cache_keys # <<>> =>
        (SameRequest(requests[1], requests[2]) <=> cache_keys[1] = cache_keys[2])

(***************************************************************************)
(* Properties of the retry wrapper.                                        *)
(***************************************************************************)
\* k retryable failures followed by a success
IsFailThenOk(outcomes, k) ==
    /\ Len(outcomes) = k + 1
    /\ \A i \in 1..k : outcomes[i] \in Retryable
    /\ outcomes[k + 1] = "ok"

\* C10: when func fails with a retryable error on its first k attempts
\* (k < max_retries) and succeeds on attempt k+1, the wrapper has made exactly
\* k+1 attempts and k waits, wait i (0-based) lasting backoff_factor^i, has
\* returned the result of func, and does nothing more.
C10_RetryThenSuccess ==
    retry.pc # "idle" =>
        /\ \A k \in 0..(retry.max_retries - 1) :
              (\E n \in 1..Len(retry.outcomes) :
                  IsFailThenOk(SubSeq(retry.outcomes, 1, n), k)) =>
                 /\ Len(retry.outcomes) = k + 1
                 /\ retry.pc = "returned"
                 /\ retry.result = OkResult
                 /\ retry.attempt = k
                 /\ Len(retry.waits) = k
                 /\ \A i \in 0..(k - 1) : retry.waits[i + 1] = retry.backoff_factor ^ i
                 /\ ~ENABLED RetryNext
        /\ (Len(retry.outcomes) < retry.max_retries
            /\ \A i \in 1..Len(retry.outcomes) : retry.outcomes[i] \in Retryable) =>
              retry.pc \in {"loop", "sleep"}

\* max_retries = 3, backoff_factor = 2: two failures, waits of 1 and 2, success
C10_Witness ==
    /\ retry.pc = "returned"
    /\ retry.max_retries = 3
    /\ retry.backoff_factor = 2
    /\ retry.outcomes = <<"ClientError", "TimeoutError", "ok">>
    /\ retry.waits = <<1, 2>>
    /\ retry.result = OkResult

\* every attempt made so far has failed with an error the wrapper retries
AllFailed(outcomes) ==
    \A i \in 1..Len(outcomes) : outcomes[i] \in Retryable \cup {"RateLimited"}

\* the exception an attempt of the given outcome raises
RaisedBy(outcome) == IF outcome = "RateLimited" THEN "ClientError" ELSE outcome

\* C11: the wrapper never makes more than max_retries attempts and goes on
\* while fewer have been made and all have failed with a retryable error;
\* when every one of max_retries >= 1 attempts has failed so it has
\* made max_retries - 1 waits, one after each attempt but the last, and has
\* raised the error of the last attempt to its caller, and does nothing more.
C11_Exhaustion ==
    retry.pc # "idle" =>
        /\ Len(retry.outcomes) <= retry.max_retries
        /\ (AllFailed(retry.outcomes) /\ Len(retry.outcomes) < retry.max_retries) =>
              retry.pc \in {"loop", "sleep", "rate_sleep"}
        /\ (/\ retry.max_retries >= 1
            /\ AllFailed(retry.outcomes)
            /\ retry.pc # "rate_sleep") =>
              Len(retry.waits) = IF Len(retry.outcomes) < retry.max_retries
                                 THEN Len(retry.outcomes)
                                 ELSE retry.max_retries - 1
        /\ (/\ retry.max_retries >= 1
            /\ Len(retry.outcomes) = retry.max_retries
            /\ AllFailed(retry.outcomes)
            /\ retry.pc # "rate_sleep") =>
              /\ retry.pc = "raised"
              /\ retry.result = RaisedBy(retry.outcomes[retry.max_retries])
              /\ retry.result = retry.last_exception
              /\ Len(retry.waits) = retry.max_retries - 1
              /\ \A i \in 1..(retry.max_retries - 1) :
                    retry.waits[i] = retry.backoff_factor ^ (i - 1)
              /\ ~ENABLED RetryNext

\* max_retries = 3: three failures, two waits, the last error raised
C11_Witness ==
    /\ retry.pc = "raised"
    /\ retry.max_retries = 3
    /\ retry.backoff_factor = 2
    /\ retry.outcomes = <<"ClientError", "ClientError", "TimeoutError">>
    /\ retry.waits = <<1, 2>>
    /\ retry.result = "TimeoutError"

\* C12 (as claimed): when an attempt was answered 429 with Retry-After r, the
\* call has slept exactly r, and nothing else, when the next attempt starts.
C12_RetryAfterOnly ==
    (/\ retry.pc = "loop"
     /\ retry.attempt >= 1
     /\ retry.outcomes[retry.attempt] = "RateLimited") =>
        retry.slept = <<retry.retry_after>>

(***************************************************************************)
(* api_call_with_retry                                                     *)
(***************************************************************************)
Terminated(pc) == pc \in {"returned", "raised", "cancelled"}
InFlight == Cardinality({i \in Calls : Holding(calls[i].pc)})
Quiet == \A i \in Calls : calls[i].pc = "idle" \/ Terminated(calls[i].pc)
Succeeded(i) == calls[i].pc = "returned" /\ calls[i].path = "remote"
Exhausted(i) == calls[i].pc = "raised" /\ calls[i].outcomes # <<>>
Issued(i) == calls[i].pc = "idle" /\ calls'[i].pc # "idle"
StepOf(i) ==
    \/ \E outcome \in OrchOutcomes : RemoteDone(i, outcome)
    \/ BackoffDone(i)
    \/ Admit(i)
    \/ Cancel(i)

\* C13: a failure that is not of a retryable kind, raised by the first
\* attempt of a call of api_call_with_retry, ends the call at once: one
\* attempt, no backoff wait, the failure raised to the caller.
C13_NonRetryablePropagates ==
    \A i \in Calls :
        (calls[i].outcomes # <<>> /\ calls[i].outcomes[1] = "ValueError") =>
            /\ calls[i].pc = "raised"
            /\ calls[i].result = Raised("ValueError")
            /\ Len(calls[i].outcomes) = 1
            /\ calls[i].waits = <<>>

\* C14: a call of api_call_with_retry that has ended has returned a response
\* or raised a failure; it has not returned without a value.
C14_ValueOrFailure ==
    \A i \in Calls :
        Terminated(calls[i].pc) =>
            \/ calls[i].result.kind = "raise"
            \/ calls[i].result.kind = "return" /\ calls[i].result.value # NoValue

\* C15: the calls inside the section the semaphore guards (at the remote work
\* or in a backoff wait) are never more than max_concurrent.
C15_ConcurrencyCap == InFlight <= max_concurrent

\* C15 witness: two slots, both held, a third call waiting for one
C15_Witness ==
    /\ max_concurrent = 2
    /\ InFlight = 2
    /\ \E i \in Calls : calls[i].pc = "acquire"

\* C16: the slots in use are the calls inside the guarded section; when no
\* call is running all slots are free, and no call made then (after a call
\* exhausted its retries or not) has to wait for a slot.
C16_SlotsMatchHolders ==
    /\ max_concurrent - sem_value = InFlight
    /\ Len(waiters) = Cardinality({i \in Calls : calls[i].pc = "acquire"})
    /\ Quiet =>
          /\ sem_value = max_concurrent
          /\ \A i \in Calls, rq \in 1..Len(OrchRequests), maxr \in 0..MaxCallRetries,
                barge \in BOOLEAN :
                ~ENABLED (Call(i, rq, maxr, barge) /\ calls'[i].pc = "acquire")

\* C16 witness: one slot; a call exhausted its retries and raised, and the
\* next call is at its first attempt, the slot in its hand
C16_Witness ==
    /\ max_concurrent = 1
    /\ Exhausted(1) /\ Len(calls[1].outcomes) = 2
    /\ calls[2].pc = "remote" /\ calls[2].attempt = 0
    /\ calls[3].pc = "idle"
    /\ sem_value = 0

\* C17: a step that cancels a call gives back the slot the call held and
\* takes none for a call that was waiting, which leaves the queue; after it
\* the slots in use are again the calls inside the guarded section.
C17_CancelNoLeak ==
    [][\A i \in Calls :
          (calls[i].pc # "cancelled" /\ calls'[i].pc = "cancelled") =>
              /\ sem_value' = IF Holding(calls[i].pc) THEN sem_value + 1 ELSE sem_value
              /\ ~InList(waiters', i)
              /\ max_concurrent - sem_value' = InFlight'
              /\ \A j \in Calls \ {i} : calls'[j] = calls[j]]_vars

\* C17 witness: one slot; the three calls were cancelled at the three awaits,
\* and the slot is free
C17_Witness ==
    /\ max_concurrent = 1
    /\ \A i \in Calls : calls[i].pc = "cancelled"
    /\ {calls[i].path : i \in Calls} = {"acquire", "remote", "backoff"}
    /\ sem_value = 1

\* C18: a call made when the cache holds an unexpired response under its key
\* returns that response, adds 1 to cache_hits and changes nothing else of
\* the metrics, the semaphore or its queue, and makes no attempt.
C18_CacheHit ==
    [][\A i \in Calls :
          (/\ Issued(i)
           /\ calls'[i].cache_key \in DOMAIN cache
           /\ now < cache[calls'[i].cache_key].expiry) =>
              /\ calls'[i].pc = "returned"
              /\ calls'[i].result = Returned(cache[calls'[i].cache_key].value)
              /\ calls'[i].outcomes = <<>>
              /\ metrics' = [metrics EXCEPT !.cache_hits = @ + 1]
              /\ sem_value' = sem_value
              /\ waiters' = waiters]_vars

\* C18 witness: a call answered from the cache while no slot was free
C18_Witness ==
    \E i \in Calls :
        /\ calls[i].pc = "returned"
        /\ calls[i].path = "cache"
        /\ calls[i].sem_at_call = 0
        /\ metrics.cache_hits = 1

\* C19: a successful attempt stores its response under the key of the call,
\* to expire ResponseTtl after the store, and adds 1 to api_calls; a later
\* call with the same request, made before that time with the response still
\* stored, returns that response without an attempt and api_calls stays.
C19_StoreThenHit ==
    [][\A i \in Calls :
          /\ (calls[i].pc = "remote" /\ calls'[i].pc = "returned") =>
                /\ calls'[i].result.value =
                       Response(OrchRequests[calls[i].request].data, now)
                /\ calls[i].cache_key \in DOMAIN cache'
                /\ cache'[calls[i].cache_key] =
                       [value |-> calls'[i].result.value, expiry |-> now + ResponseTtl]
                /\ metrics'.api_calls = metrics.api_calls + 1
          /\ \A j \in Calls :
                (/\ Succeeded(i)
                 /\ Issued(j)
                 /\ calls'[j].request = calls[i].request
                 /\ calls[i].cache_key \in DOMAIN cache
                 /\ cache[calls[i].cache_key].value = calls[i].result.value
                 /\ now < calls[i].result.value[4] + ResponseTtl) =>
                    /\ calls'[j].pc = "returned"
                    /\ calls'[j].result = calls[i].result
                    /\ calls'[j].outcomes = <<>>
                    /\ metrics'.api_calls = metrics.api_calls]_vars

\* C19 witness: the same request twice, the second call made ResponseTtl - 1
\* after the first stored its response: one remote call, one cache hit
C19_Witness ==
    /\ Succeeded(1)
    /\ calls[1].result.value[4] = 0
    /\ calls[2].pc = "returned" /\ calls[2].path = "cache"
    /\ calls[2].request = calls[1].request
    /\ calls[2].result = calls[1].result
    /\ calls[2].called_at = ResponseTtl - 1
    /\ metrics.api_calls = 1

\* C20: a call whose attempts all failed (max_retries >= 1) has made
\* max_retries attempts, has raised the last failure and runs no further;
\* api_failures counts each such call once, api_calls counts the successful
\* calls only, and the cache holds nothing but responses of successful calls.
C20_ExhaustedCall ==
    /\ \A i \in Calls :
          Exhausted(i) =>
              /\ calls[i].max_retries >= 1
              /\ Len(calls[i].outcomes) = calls[i].max_retries
              /\ \A k \in 1..Len(calls[i].outcomes) : calls[i].outcomes[k] # "ok"
              /\ calls[i].result = Raised(calls[i].outcomes[calls[i].max_retries])
              /\ Len(calls[i].waits) = calls[i].max_retries - 1
              /\ ~ENABLED StepOf(i)
    /\ metrics.api_failures = Cardinality({i \in Calls : Exhausted(i)})
    /\ metrics.api_calls = Cardinality({i \in Calls : Succeeded(i)})
    /\ \A k \in DOMAIN cache :
          \E i \in Calls :
              Succeeded(i) /\ calls[i].cache_key = k /\ cache[k].value = calls[i].result.value

\* C20 witness: both attempts of a call failed; one failure is counted, no
\* remote call is, and the cache is empty
C20_Witness ==
    /\ Exhausted(1)
    /\ calls[1].max_retries = 2
    /\ calls[1].outcomes = <<"ClientError", "ClientError">>
    /\ calls[1].waits = <<1>>
    /\ metrics = [cache_hits |-> 0, api_calls |-> 0, api_failures |-> 1]
    /\ cache = EmptyDict

(***************************************************************************)
(* process_user_batch                                                      *)
(***************************************************************************)
\* the dicts process_single returns for a user whose call does not fail
SoloOutcomes(user, operation, is_trained) ==
    {ProcessSingle(user, operation, churn_score).dict :
        churn_score \in ChurnScores(user, is_trained)}

\* C21: process_user_batch returns one outcome per user, the i-th for the
\* i-th user: the error outcome when the call of that user raised, and
\* otherwise an outcome of that user processed alone, whatever the other
\* users' calls did and whatever the order the tasks completed in.
C21_BatchOutcomes ==
    batch.pc = "returned" =>
        /\ Len(batch.ret) = Len(batch.users)
        /\ \A i \in 1..Len(batch.users) :
              /\ batch.ret[i].kind = "dict"
              /\ batch.ret[i].user = batch.users[i].email
              /\ batch.tasks[i].raised # NoRaise =>
                    /\ batch.ret[i].action = "error"
                    /\ batch.ret[i].detail = <<"error", batch.tasks[i].raised>>
              /\ batch.tasks[i].raised = NoRaise =>
                    batch.ret[i] \in SoloOutcomes(batch.users[i], batch.operation,
                                                  batch.is_trained)

\* C21 witness: three users, the call of the second raised, the tasks
\* completed in the order 3, 2, 1
C21_Witness ==
    /\ batch.pc = "returned"
    /\ Len(batch.users) = 3
    /\ batch.completed = <<3, 2, 1>>
    /\ batch.tasks[2].raised = "ClientError"
    /\ batch.ret[2].action = "error"
    /\ batch.ret[1].action = "optimized"
    /\ batch.ret[3].action = "deprovisioned"

\* C22: under fair scheduling every call that was made ends: it returns,
\* raises or is cancelled by its caller.  A call that waits for a slot
\* therefore leaves the wait: no call waits forever, none is deadlocked.
C22_Liveness ==
    \A i \in Calls : (calls[i].pc # "idle") ~> Terminated(calls[i].pc)

\* C22 witness: one slot; the second call was made while the first held
\* the slot (it missed the response the first has stored since), waited,
\* was admitted and has returned
C22_Witness ==
    /\ max_concurrent = 1
    /\ Succeeded(1)
    /\ Succeeded(2)
    /\ calls[2].request = calls[1].request
    /\ calls[1].result.value[4] = now

\* C23: a call of get_all_users whose first response is a 429 does not fail
\* with it: the rate limiting is absorbed and the request is made again.
C23_RateLimitAbsorbed ==
    (listing.pc # "idle" /\ listing.statuses # <<>> /\ listing.statuses[1] = 429) =>
        listing.pc # "raised"

\* ceil(n / b) for b >= 1
Ceil(n, b) == (n + b - 1) \div b

\* the rows of the batches, one batch after the other
RECURSIVE Concat(_)
Concat(ss) == IF ss = <<>> THEN <<>> ELSE Head(ss) \o Concat(Tail(ss))

\* C24: process_csv of n rows with batch size b >= 1 runs the batches one
\* after another (a batch starts only when every earlier one has finished),
\* the k-th batch being rows (k-1)*b+1 .. min(k*b, n); when it returns it has
\* run exactly ceil(n/b) batches, their rows together are rows 1..n in
\* order, each row once, and the processed count is n.
C24_Batches ==
    bulk.pc # "idle" =>
        /\ Len(bulk.batches) - bulk.finished \in {0, 1}
        /\ bulk.pc \in {"loop", "returned"} => bulk.finished = Len(bulk.batches)
        /\ \A k \in 1..Len(bulk.batches) :
               bulk.batches[k] =
                   [r \in 1..(Min(k * bulk.batch_size, bulk.total_users)
                              - (k - 1) * bulk.batch_size) |->
                       (k - 1) * bulk.batch_size + r]
        /\ bulk.pc = "returned" =>
               /\ bulk.batch_size >= 1
               /\ Len(bulk.batches) = Ceil(bulk.total_users, bulk.batch_size)
               /\ Concat(bulk.batches) = [u \in 1..bulk.total_users |-> u]
               /\ bulk.stats.processed = bulk.total_users
               /\ bulk.stats.successful + bulk.stats.failed = bulk.total_users

\* C24 witness: 5 rows with batch size 2 have been processed in the three
\* batches of 2, 2 and 1 rows
C24_Witness ==
    /\ bulk.pc = "returned"
    /\ bulk.total_users = 5
    /\ bulk.batch_size = 2
    /\ bulk.batches = <<(<<1, 2>>), (<<3, 4>>), (<<5>>)>>
    /\ bulk.stats.processed = 5

\* C25: once BreakerThreshold remote attempts in a row have failed (no
\* attempt has succeeded, and with one slot the attempts are made one at a
\* time), the circuit is open: no further attempt invokes the remote API.
C25_CircuitOpens ==
    (/\ max_concurrent = 1
     /\ metrics.api_calls = 0
     /\ FailedAttempts(calls) >= BreakerThreshold) =>
        \A i \in Calls : calls[i].pc # "remote"

\* C26: set on a key that is already in the table, also when the table is
\* at capacity, evicts nothing and raises nothing: the keys of the table are
\* the same, every other entry keeps its value and expiry, the entry of the
\* key holds the new value and the new expiry (now plus the ttl, or plus
\* default_ttl when the ttl is None or 0), the key is moved to the end of the
\* recency list, the other keys keeping their order, and hits and misses
\* are unchanged.
C26_Overwrite ==
    [][\A key \in Keys :
          (SetCall(key) /\ key \in DOMAIN cache) =>
             /\ last'.raised = NoRaise
             /\ last'.evicted = None
             /\ DOMAIN cache' = DOMAIN cache
             /\ \A k \in DOMAIN cache \ {key} : cache'[k] = cache[k]
             /\ cache'[key].value = lastSet'[key]
             /\ cache'[key].expiry =
                    now + (IF last'.ttl \in {NoTtl, <<0>>} THEN default_ttl
                           ELSE last'.ttl[1])
             /\ access_order' = Append(Without(access_order, key), key)
             /\ UNCHANGED <<hits, misses>>]_vars

\* C26 witness: a table of capacity 2 holding A and B, B the more recent,
\* after a set on A that found A present: A is now the most recent
C26_Witness ==
    /\ max_size = 2
    /\ Size = 2
    /\ last.op = "set"
    /\ last.path = "overwrite"
    /\ last.key = "A"
    /\ access_order = <<"B", "A">>

\* C27: whatever the interleaving of the calls of api_call_with_retry, the
\* table and the recency list are only ever seen between whole get and set
\* calls: in every reachable state the table has at most max_size entries
\* and the recency list holds exactly the keys of the table, each once (no
\* state shows an eviction without its insertion or a pop without its
\* delete), and every call made has counted exactly one hit or one miss.
C27_AtomicCacheOps ==
    /\ Size <= max_size
    /\ {access_order[k] : k \in 1..Len(access_order)} = DOMAIN cache
    /\ Len(access_order) = Size
    /\ hits + misses = Cardinality({i \in Calls : calls[i].pc # "idle"})

\* C27 witness: capacity 1; while call 1 was in flight, calls 2 and 3 stored
\* the responses of two different requests, the later store evicting the
\* entry of the earlier one
C27_Witness ==
    /\ max_size = 1
    /\ calls[1].pc = "remote"
    /\ Succeeded(2)
    /\ Succeeded(3)
    /\ calls[2].request # calls[3].request
    /\ Size = 1
    /\ DOMAIN cache = {calls[3].cache_key} \/ DOMAIN cache = {calls[2].cache_key}

\* the calls that are at the remote work or in a backoff sleep
Attempting == {i \in Calls : calls[i].pc \in {"remote", "backoff"}}

\* C28: a call keeps its slot from its first attempt to its end, backoff
\* sleeps included: a step of a call between attempts (the attempt fails and
\* the sleep starts, the sleep ends and the next attempt starts) frees and
\* takes no slot and wakes no waiter, every call at the remote work or in a
\* backoff sleep occupies a slot of its own, and with one slot no other
\* call is at its first or any attempt while a call is in a backoff sleep.
C28_SlotHeldThroughBackoff ==
    /\ [](/\ Cardinality(Attempting) + sem_value = max_concurrent
          /\ max_concurrent = 1 => Cardinality(Attempting) <= 1)
    /\ [][\A i \in Calls :
             (/\ calls[i].pc \in {"remote", "backoff"}
              /\ calls'[i].pc \in {"remote", "backoff"}
              /\ calls'[i].pc # calls[i].pc) =>
                 UNCHANGED <<sem_value, waiters>>]_vars

\* C28 witness: one slot; call 1 failed its first attempt and sleeps before
\* the second, call 2 was made meanwhile and waits for the slot
C28_Witness ==
    /\ max_concurrent = 1
    /\ calls[1].pc = "backoff"
    /\ Len(calls[1].outcomes) = 1
    /\ calls[2].pc = "acquire"
    /\ waiters = <<2>>
    /\ sem_value = 0

\* C29: calls with the same request are not coalesced.  A call (max_retries
\* >= 1) made while another call with the same request is waiting, at the
\* remote work or in backoff, and no response is stored under their key,
\* counts a miss and no hit and goes on to the semaphore and its own remote
\* work.  When a call succeeds after another call with the same request has
\* succeeded, api_calls grows by one more, and the table still has one
\* entry under the key, now holding the response of the call that has just
\* ended.
C29_NotCoalesced ==
    [][\A i, j \in Calls :
          i # j =>
             /\ (/\ Issued(j)
                 /\ calls[i].pc \in {"acquire", "remote", "backoff"}
                 /\ calls'[j].request = calls[i].request
                 /\ calls'[j].max_retries >= 1
                 /\ calls[i].cache_key \notin DOMAIN cache) =>
                    /\ misses' = misses + 1
                    /\ hits' = hits
                    /\ metrics' = metrics
                    /\ calls'[j].pc \in {"acquire", "remote"}
             /\ (/\ Succeeded(i)
                 /\ calls[j].pc = "remote"
                 /\ calls'[j].pc = "returned"
                 /\ calls[j].request = calls[i].request) =>
                    /\ metrics'.api_calls = metrics.api_calls + 1
                    /\ metrics.api_calls >= 1
                    /\ calls[j].cache_key = calls[i].cache_key
                    /\ calls[j].cache_key \in DOMAIN cache'
                    /\ cache'[calls[j].cache_key].value = calls'[j].result.value
                    /\ Cardinality(DOMAIN cache') <= Cardinality(DOMAIN cache) + 1
                    /\ calls[j].cache_key \in DOMAIN cache =>
                           DOMAIN cache' = DOMAIN cache]_vars

\* C29 witness: calls 1 and 2 with the same request both missed and both
\* made the remote call; call 1 stored its response at time 0, call 2 at
\* ResponseTtl - 1 (so it was made before call 1 stored: afterwards it would
\* have been answered from the cache); the one entry is the response of call 2
C29_Witness ==
    /\ Succeeded(1)
    /\ Succeeded(2)
    /\ calls[2].request = calls[1].request
    /\ calls[1].result.value[4] = 0
    /\ calls[2].result.value[4] = ResponseTtl - 1
    /\ metrics.api_calls = 2
    /\ misses = 2
    /\ DOMAIN cache = {calls[1].cache_key}
    /\ cache[calls[1].cache_key].value = calls[2].result.value

\* C30: process_job takes a job from pending through processing to
\* completed or failed.  When it returns the status is completed or failed;
\* an error of the handler or an operation without a handler gives failed
\* and is not raised; failed comes with error_message set and completed_at
\* unset, completed with completed_at and metadata set and error_message
\* unset; and a terminal status is published to the store only after
\* processing has been published.
C30_JobLifecycle ==
    job.pc # "idle" =>
        /\ job.pc = "returned" => job.status \in {"completed", "failed"}
        /\ job.failure \in {"Exception", "ValueError"} =>
               /\ job.status = "failed"
               /\ job.raised \notin {"Exception", "ValueError"}
        /\ job.status = "failed" =>
               /\ job.error_message # <<>>
               /\ job.completed_at = <<>>
        /\ job.status = "completed" =>
               /\ job.completed_at # <<>>
               /\ job.metadata # <<>>
               /\ job.error_message = <<>>
        /\ job.store # <<>> =>
               /\ job.store[1] = "processing"
               /\ \A k \in 2..Len(job.store) : job.store[k] \in {"completed", "failed"}
====
